---- MODULE Spec2Model ----
(***************************************************************************)
(* A model of phantom_newtype's Amount<TF, Unit, Repr> (src/src/amount.rs) *)
(* and of the four aliases of src/src/lib.rs.                              *)
(*                                                                         *)
(* A program holds two variables, x and y, each declared with a wrapper    *)
(* type (capability flag, unit tag, representation type).  Every method    *)
(* and trait implementation of amount.rs is an action that is enabled      *)
(* exactly when the impl's header (its type parameters and where-clauses)  *)
(* admits the operand types, and whose effect is the impl's body.          *)
(***************************************************************************)
EXTENDS Integers, Sequences, FiniteSets, TLC

VARIABLES
    decl,             \* the declared wrapper type of each variable
    store,            \* the wrapper each variable holds, None once moved out
    op,               \* the last operation and its operands as they were
    out,              \* what the last operation returned, or that it aborted
    overflow_checks,  \* the build: integer overflow aborts (TRUE) or wraps
    bare              \* the bare representation kept beside each variable

vars == <<decl, store, op, out, overflow_checks, bare>>

\* The largest value of the unsigned representation (u64::MAX, scaled down).
ReprMax == 3

----------------------------------------------------------------------------
(* Types *)

TRAIT_FLAGS_IS_COPY_IS_DEFAULT == "IS_COPY_IS_DEFAULT"
TRAIT_FLAGS_IS_COPY_NO_DEFAULT == "IS_COPY_NO_DEFAULT"
TRAIT_FLAGS_NO_COPY_IS_DEFAULT == "NO_COPY_IS_DEFAULT"
TRAIT_FLAGS_NO_COPY_NO_DEFAULT == "NO_COPY_NO_DEFAULT"

TraitFlags ==
    { TRAIT_FLAGS_IS_COPY_IS_DEFAULT, TRAIT_FLAGS_IS_COPY_NO_DEFAULT,
      TRAIT_FLAGS_NO_COPY_IS_DEFAULT, TRAIT_FLAGS_NO_COPY_NO_DEFAULT }

\* Marker types used as units (the doc tests' Apples and Oranges).
Units == {"Apples", "Oranges"}

\* Representation types: u64 (Copy, Default, arithmetic), NonZeroU64 (Copy,
\* no Default, no arithmetic) and Box<u64> (Clone and Default, not Copy).
ReprTypes == {"u64", "NonZeroU64", "BoxU64"}

\* struct Amount<const TF: TraitFlags, Unit, Repr>
AmountTypes == [TF : TraitFlags, Unit : Units, Repr : ReprTypes]

Slots == {"x", "y"}

ReprValues(R) == IF R = "NonZeroU64" THEN 1..ReprMax ELSE 0..ReprMax

\* What the representation type implements (the bounds the impls ask for).
ReprCopy(R) == R \in {"u64", "NonZeroU64"}
ReprClone(R) == R \in ReprTypes
ReprDefault(R) == R \in {"u64", "BoxU64"}
ReprPartialEq(R) == R \in ReprTypes
ReprPartialOrd(R) == R \in ReprTypes
ReprOrd(R) == R \in ReprTypes
ReprHash(R) == R \in ReprTypes
ReprArith(R) == R = "u64"
ReprDisplay(R) == R \in ReprTypes
ReprSerde(R) == R \in ReprTypes

----------------------------------------------------------------------------
(* Option / Result values: <<>> is None (or an abort), <<v>> is Some(v). *)

None == <<>>
Some(v) == <<v>>

\* PhantomData<AtomicPtr<Unit>>: a field with no runtime content.
PhantomData == <<>>

\* Self(repr, PhantomData): the tuple struct's value, with its type.
Amount(ty, repr, phantom) == [ty |-> ty, f0 |-> repr, f1 |-> phantom]

----------------------------------------------------------------------------
(* The representation's own operations (u64, NonZeroU64, Box<u64>). *)

Modulus == ReprMax + 1

\* u64 += : aborts on overflow when the build checks overflow, wraps otherwise.
ReprAddAssign(u, v) ==
    IF u + v > ReprMax
    THEN IF overflow_checks THEN None ELSE Some((u + v) % Modulus)
    ELSE Some(u + v)

\* u64 -=
ReprSubAssign(u, v) ==
    IF u < v
    THEN IF overflow_checks THEN None ELSE Some((u - v + Modulus) % Modulus)
    ELSE Some(u - v)

\* u64 *=
ReprMulAssign(u, v) ==
    IF u * v > ReprMax
    THEN IF overflow_checks THEN None ELSE Some((u * v) % Modulus)
    ELSE Some(u * v)

\* u64 / u64: aborts on a zero divisor in every build.
ReprDiv(u, v) == IF v = 0 THEN None ELSE Some(u \div v)

ReprEq(u, v) == u = v

ReprCmp(u, v) == IF u < v THEN "Less" ELSE IF u = v THEN "Equal" ELSE "Greater"

ReprPartialCmp(u, v) == Some(ReprCmp(u, v))

ReprDefaultValue(R) == 0

\* Hash::hash feeds the value to the hasher.
ReprHashInto(v, state) == Append(state, v)

DigitChar(d) ==
    CASE d = 0 -> "0" [] d = 1 -> "1" [] d = 2 -> "2" [] d = 3 -> "3"
      [] d = 4 -> "4" [] d = 5 -> "5" [] d = 6 -> "6" [] d = 7 -> "7"
      [] d = 8 -> "8" [] d = 9 -> "9"

DigitChars == {DigitChar(d) : d \in 0..9}

DigitValue(c) == CHOOSE d \in 0..9 : DigitChar(d) = c

RECURSIVE Digits(_)
Digits(n) ==
    IF n < 10 THEN <<DigitChar(n)>>
    ELSE Digits(n \div 10) \o <<DigitChar(n % 10)>>

RECURSIVE ParseDigits(_, _)
ParseDigits(s, acc) ==
    IF s = <<>> THEN acc
    ELSE ParseDigits(Tail(s), 10 * acc + DigitValue(Head(s)))

\* Display and Debug of an integer: its decimal digits.
ReprFmt(v) == Digits(v)

\* The representation's serialized form (serde_json: the decimal digits).
ReprSerialize(v) == Digits(v)

\* The representation's deserializer: Some(v), or None for an error (empty
\* input, a sign, a non-digit, a leading zero, a value out of range).
ReprDeserialize(R, s) ==
    IF /\ s # <<>>
       /\ \A i \in 1..Len(s) : s[i] \in DigitChars
       /\ (Len(s) > 1 => s[1] # "0")
       /\ ParseDigits(s, 0) \in ReprValues(R)
    THEN Some(ParseDigits(s, 0))
    ELSE None

\* size_of::<Repr>(), in bytes: each of the three is one 64-bit word.
ReprSize(R) == 8

\* The bytes of a representation value in memory (one word, the number).
ReprBytes(v) == <<v>>

----------------------------------------------------------------------------
(* Which impls of amount.rs exist for a wrapper type (the impl headers). *)

\* impl<const TF, Unit, Repr: Copy> Amount<TF, Unit, Repr> { fn get }
ImplGet(ty) == ReprCopy(ty.Repr)

\* impl<const TF, Unit, Repr> Amount<TF, Unit, Repr> { const fn new }
ImplNew(ty) == TRUE

\* impl<const TF, Unit, Repr> From<Repr> for Amount<TF, Unit, Repr>
ImplFrom(ty) == TRUE

\* impl<const TF, Unit, Repr: Clone> Clone for Amount<TF, Unit, Repr>
ImplClone(ty) == ReprClone(ty.Repr)

\* Mutant: Copy for every flag, as #[derive(Copy)] would give.
ImplCopy_AnyFlag(ty) == ReprCopy(ty.Repr)

\* impl<Unit, Repr: Copy> Copy for Amount<{IS_COPY_IS_DEFAULT}, Unit, Repr>
\* impl<Unit, Repr: Copy> Copy for Amount<{IS_COPY_NO_DEFAULT}, Unit, Repr>
ImplCopy(ty) ==
    \/ ty.TF = TRAIT_FLAGS_IS_COPY_IS_DEFAULT /\ ReprCopy(ty.Repr)
    \/ ty.TF = TRAIT_FLAGS_IS_COPY_NO_DEFAULT /\ ReprCopy(ty.Repr)

\* Mutant: the impl for the non-copyable flag with a default left out.
ImplDefault_CopyOnly(ty) ==
    ty.TF = TRAIT_FLAGS_IS_COPY_IS_DEFAULT /\ ReprDefault(ty.Repr)

\* impl<Unit, Repr: Default> Default for Amount<{IS_COPY_IS_DEFAULT}, Unit, Repr>
\* impl<Unit, Repr: Default> Default for Amount<{NO_COPY_IS_DEFAULT}, Unit, Repr>
ImplDefault(ty) ==
    \/ ty.TF = TRAIT_FLAGS_IS_COPY_IS_DEFAULT /\ ReprDefault(ty.Repr)
    \/ ty.TF = TRAIT_FLAGS_NO_COPY_IS_DEFAULT /\ ReprDefault(ty.Repr)

\* impl PartialEq for Amount<TF, Unit, Repr>: the right operand is Self.
ImplPartialEq(ty, rhs) == rhs = ty /\ ReprPartialEq(ty.Repr)

\* impl PartialOrd for Amount<TF, Unit, Repr>
ImplPartialOrd(ty, rhs) == rhs = ty /\ ReprPartialOrd(ty.Repr)

\* impl Ord for Amount<TF, Unit, Repr>
ImplOrd(ty, rhs) == rhs = ty /\ ReprOrd(ty.Repr)

\* impl Hash for Amount<TF, Unit, Repr>
ImplHash(ty) == ReprHash(ty.Repr)

\* Mutant: an Add impl generic over the right operand's unit.
ImplAdd_AnyUnit(ty, rhs) ==
    /\ rhs.TF = ty.TF
    /\ rhs.Repr = ty.Repr
    /\ ReprArith(ty.Repr)
    /\ ReprCopy(ty.Repr)

\* impl Add for Amount<TF, Unit, Repr> where Repr: AddAssign + Copy
ImplAdd(ty, rhs) == rhs = ty /\ ReprArith(ty.Repr) /\ ReprCopy(ty.Repr)

\* impl AddAssign for Amount<TF, Unit, Repr> where Repr: AddAssign + Copy
ImplAddAssign(ty, rhs) == rhs = ty /\ ReprArith(ty.Repr) /\ ReprCopy(ty.Repr)

\* impl SubAssign for Amount<TF, Unit, Repr> where Repr: SubAssign + Copy
ImplSubAssign(ty, rhs) == rhs = ty /\ ReprArith(ty.Repr) /\ ReprCopy(ty.Repr)

\* impl Sub for Amount<TF, Unit, Repr> where Repr: SubAssign + Copy
ImplSub(ty, rhs) == rhs = ty /\ ReprArith(ty.Repr) /\ ReprCopy(ty.Repr)

\* impl MulAssign<Repr> for Amount<TF, Unit, Repr> where Repr: MulAssign + Copy
ImplMulAssign(ty) == ReprArith(ty.Repr) /\ ReprCopy(ty.Repr)

\* impl Mul<Repr> for Amount<TF, Unit, Repr> where Repr: MulAssign + Copy
ImplMul(ty) == ReprArith(ty.Repr) /\ ReprCopy(ty.Repr)

\* impl Div<Self> for Amount<TF, Unit, Repr> where Repr: Div<Repr> + Copy
ImplDiv(ty, rhs) == rhs = ty /\ ReprArith(ty.Repr) /\ ReprCopy(ty.Repr)

\* impl fmt::Display for Amount<TF, Unit, Repr> where Repr: fmt::Display
ImplDisplay(ty) == ReprDisplay(ty.Repr)

\* impl Serialize / Deserialize for Amount<TF, Unit, Repr>
ImplSerialize(ty) == ReprSerde(ty.Repr)

ImplDeserialize(ty) == ReprSerde(ty.Repr)

\* A value of one wrapper type is accepted where another is expected only
\* when the two types are the same: the unit is a parameter of the struct.
Assignable(to, ty) == to = ty

----------------------------------------------------------------------------
(* The methods of Amount, as amount.rs writes them. *)

\* Mutant: a constructor that refuses zero and stores one in its place.
new_NonZero(ty, repr) == Amount(ty, IF repr = 0 THEN 1 ELSE repr, PhantomData)

\* pub const fn new(repr: Repr) -> Self
new(ty, repr) == Amount(ty, repr, PhantomData)

\* fn from(repr: Repr) -> Self
from(ty, repr) == new(ty, repr)

\* pub fn get(&self) -> Repr
get(self) == self.f0

\* fn clone(&self) -> Self
clone(self) == Amount(self.ty, self.f0, PhantomData)

\* fn default() -> Self
default(ty) == Amount(ty, ReprDefaultValue(ty.Repr), PhantomData)

\* fn eq(&self, rhs: &Self) -> bool
eq(self, rhs) == ReprEq(self.f0, rhs.f0)

\* PartialEq::ne, the trait's provided method
ne(self, rhs) == ~eq(self, rhs)

\* fn partial_cmp(&self, rhs: &Self) -> Option<Ordering>
partial_cmp(self, rhs) == ReprPartialCmp(self.f0, rhs.f0)

\* PartialOrd::lt and gt, the trait's provided methods
lt(self, rhs) == partial_cmp(self, rhs) = Some("Less")

gt(self, rhs) == partial_cmp(self, rhs) = Some("Greater")

\* Mutant: the operands of the comparison swapped.
cmp_Swapped(self, rhs) == ReprCmp(rhs.f0, self.f0)

\* fn cmp(&self, rhs: &Self) -> Ordering
cmp(self, rhs) == ReprCmp(self.f0, rhs.f0)

\* Iterator::max over [a, b]: by Ord::cmp, the last of equal maxima.
max(a, b) == IF cmp(a, b) = "Greater" THEN a ELSE b

\* fn hash<H: Hasher>(&self, state: &mut H)
hash(self, state) == ReprHashInto(self.f0, state)

\* An accumulation that takes its own value for the operand:
\* self.0 += self.get()
add_assign_Self(self, rhs) ==
    LET r == ReprAddAssign(self.f0, get(self))
    IN  IF r = None THEN None ELSE Some([self EXCEPT !.f0 = r[1]])

\* fn add_assign(&mut self, rhs: Self): the new self, or None for an abort
add_assign(self, rhs) ==
    LET r == ReprAddAssign(self.f0, get(rhs))
    IN  IF r = None THEN None ELSE Some([self EXCEPT !.f0 = r[1]])

\* fn add(mut self, rhs: Self) -> Self
add(self, rhs) == add_assign(self, rhs)

\* Mutant: the subtraction written as the addition it was copied from.
sub_assign_Adds(self, rhs) == add_assign(self, rhs)

\* Mutant: a subtraction that aborts on underflow in every build.
sub_assign_Checked(self, rhs) ==
    IF self.f0 < get(rhs) THEN None
    ELSE Some([self EXCEPT !.f0 = self.f0 - get(rhs)])

\* fn sub_assign(&mut self, rhs: Self)
sub_assign(self, rhs) ==
    LET r == ReprSubAssign(self.f0, get(rhs))
    IN  IF r = None THEN None ELSE Some([self EXCEPT !.f0 = r[1]])

\* fn sub(mut self, rhs: Self) -> Self
sub(self, rhs) == sub_assign(self, rhs)

\* fn mul_assign(&mut self, rhs: Repr)
mul_assign(self, rhs) ==
    LET r == ReprMulAssign(self.f0, rhs)
    IN  IF r = None THEN None ELSE Some([self EXCEPT !.f0 = r[1]])

\* fn mul(mut self, rhs: Repr) -> Self
mul(self, rhs) == mul_assign(self, rhs)

\* Mutant: the operands of the division swapped.
div_Swapped(self, rhs) == ReprDiv(rhs.f0, self.f0)

\* fn div(self, rhs: Self) -> <Repr as Div>::Output
div(self, rhs) == ReprDiv(self.f0, rhs.f0)

\* Display::fmt: write!(f, "{}", self.0)
fmt(self) == ReprFmt(self.f0)

\* Mutant: the derived Serialize, which writes the phantom field too.
serialize_Derived(self) ==
    <<"[">> \o ReprSerialize(self.f0) \o <<",", "null", "]">>

\* fn serialize<S: Serializer>(&self, serializer: S)
serialize(self) == ReprSerialize(self.f0)

\* fn deserialize<D: Deserializer>(deserializer: D) -> Result<Self, D::Error>
deserialize(ty, input) ==
    LET r == ReprDeserialize(ty.Repr, input)
    IN  IF r = None THEN None ELSE Some(new(ty, r[1]))

\* Mutant: the tag field stored as a pointer, not as PhantomData.
SizeOfAtomicPtr == ReprSize("u64")

\* size_of::<PhantomData<_>>()
SizeOfPhantomData == 0

\* size_of::<Amount<TF, Unit, Repr>>(): #[repr(transparent)] over field 0
SizeOf(ty) == ReprSize(ty.Repr) + SizeOfPhantomData

\* The bytes of a wrapper value in memory: field 0, then the phantom field.
Bytes(self) == ReprBytes(self.f0) \o self.f1

----------------------------------------------------------------------------
(* The program state. *)

\* What the last operation was: its name, its operand variables, the
\* operands as they were before it, its scalar and its input text.
Op(name, a, b, lhs, rhs, k, input) ==
    [name |-> name, a |-> a, b |-> b, lhs |-> lhs, rhs |-> rhs, k |-> k,
     input |-> input]

NoOp == Op("none", "-", "-", None, None, -1, <<>>)

Out(kind, val) == [kind |-> kind, val |-> val]

NoOut == Out("none", 0)

Panic == Out("panic", 0)

Live(s) == store[s] # None

Val(s) == store[s][1]

\* A panic ends the program.
Running == out.kind # "panic"

\* Passing the variable s by value: a Copy type stays, any other is moved out.
Moved(st, s) == IF ImplCopy(decl[s]) THEN st ELSE [st EXCEPT ![s] = None]

\* Characters of the inputs handed to deserialize.
InputChars == {"0", "1", "-"}

\* The inputs handed to deserialize: every text of at most two characters.
Inputs ==
    {<<>>} \cup {<<c>> : c \in InputChars}
           \cup {<<c, e>> : c \in InputChars, e \in InputChars}

\* lib.rs: pub type Amount<Unit, Repr>, as the doc tests use it.
DocAmount ==
    [TF |-> TRAIT_FLAGS_IS_COPY_IS_DEFAULT, Unit |-> "Apples", Repr |-> "u64"]

\* The programs: x and y of one type, whichever it is, or x of the doc
\* tests' type beside a y of any type.
Programs ==
    {d \in [Slots -> AmountTypes] : d["x"] = d["y"] \/ d["x"] = DocAmount}

\* The bare values beside the variables once an operation has left the
\* wrappers st: a variable the operation did not write keeps its bare value,
\* one it moved out of has none, and one it wrote starts from the
\* representation of the wrapper it now holds.
Unwrapped(st) ==
    [s \in Slots |->
        IF st[s] = store[s] THEN bare[s]
        ELSE IF st[s] = None THEN None
        ELSE Some(st[s][1].f0)]

Init ==
    /\ decl \in Programs
    /\ store = [s \in Slots |-> None]
    /\ op = NoOp
    /\ out = NoOut
    /\ overflow_checks \in BOOLEAN
    /\ bare = [s \in Slots |-> None]

----------------------------------------------------------------------------
(* Construction, access, duplication. *)

\* let d = Amount::new(v)
New(d, v) ==
    /\ Running
    /\ ImplNew(decl[d])
    /\ v \in ReprValues(decl[d].Repr)
    /\ store' = [store EXCEPT ![d] = Some(new(decl[d], v))]
    /\ op' = Op("new", d, "-", None, None, v, <<>>)
    /\ out' = NoOut
    /\ UNCHANGED <<decl, overflow_checks>>
    /\ bare' = [bare EXCEPT ![d] = Some(v)]

\* let d = Amount::from(v)
From(d, v) ==
    /\ Running
    /\ ImplFrom(decl[d])
    /\ v \in ReprValues(decl[d].Repr)
    /\ store' = [store EXCEPT ![d] = Some(from(decl[d], v))]
    /\ op' = Op("from", d, "-", None, None, v, <<>>)
    /\ out' = NoOut
    /\ UNCHANGED <<decl, overflow_checks>>
    /\ bare' = [bare EXCEPT ![d] = Some(v)]

\* let d = Default::default()
Default(d) ==
    /\ Running
    /\ ImplDefault(decl[d])
    /\ store' = [store EXCEPT ![d] = Some(default(decl[d]))]
    /\ op' = Op("default", d, "-", None, None, -1, <<>>)
    /\ out' = NoOut
    /\ UNCHANGED <<decl, overflow_checks>>
    /\ bare' = Unwrapped(store')

\* s.get()
Get(s) ==
    /\ Running
    /\ Live(s)
    /\ ImplGet(Val(s).ty)
    /\ out' = Out("repr", get(Val(s)))
    /\ op' = Op("get", s, "-", store[s], None, -1, <<>>)
    /\ UNCHANGED <<decl, store, overflow_checks, bare>>

\* d = s.clone()
Clone(s, d) ==
    /\ Running
    /\ Live(s)
    /\ ImplClone(Val(s).ty)
    /\ Assignable(decl[d], clone(Val(s)).ty)
    /\ store' = [store EXCEPT ![d] = Some(clone(Val(s)))]
    /\ op' = Op("clone", s, d, store[s], None, -1, <<>>)
    /\ out' = NoOut
    /\ UNCHANGED <<decl, overflow_checks>>
    /\ bare' = Unwrapped(store')

\* d = s: s is passed by value
Assign(s, d) ==
    /\ Running
    /\ Live(s)
    /\ s # d
    /\ Assignable(decl[d], Val(s).ty)
    /\ store' = [Moved(store, s) EXCEPT ![d] = store[s]]
    /\ op' = Op("assign", s, d, store[s], None, -1, <<>>)
    /\ out' = NoOut
    /\ UNCHANGED <<decl, overflow_checks>>
    /\ bare' = Unwrapped(store')

\* d = (the wrapper the last operation returned)
Bind(d) ==
    /\ Running
    /\ out.kind = "amount"
    /\ Assignable(decl[d], out.val.ty)
    /\ store' = [store EXCEPT ![d] = Some(out.val)]
    /\ op' = Op("bind", "-", d, Some(out.val), None, -1, <<>>)
    /\ out' = NoOut
    /\ UNCHANGED <<decl, overflow_checks>>
    /\ bare' = Unwrapped(store')

----------------------------------------------------------------------------
(* Comparison and hashing: the operands are borrowed. *)

Comparable(a, b) == Running /\ Live(a) /\ Live(b)

\* a == b
Eq(a, b) ==
    /\ Comparable(a, b)
    /\ ImplPartialEq(Val(a).ty, Val(b).ty)
    /\ out' = Out("bool", eq(Val(a), Val(b)))
    /\ op' = Op("eq", a, b, store[a], store[b], -1, <<>>)
    /\ UNCHANGED <<decl, store, overflow_checks, bare>>

\* a != b
Ne(a, b) ==
    /\ Comparable(a, b)
    /\ ImplPartialEq(Val(a).ty, Val(b).ty)
    /\ out' = Out("bool", ne(Val(a), Val(b)))
    /\ op' = Op("ne", a, b, store[a], store[b], -1, <<>>)
    /\ UNCHANGED <<decl, store, overflow_checks, bare>>

\* a < b
Lt(a, b) ==
    /\ Comparable(a, b)
    /\ ImplPartialOrd(Val(a).ty, Val(b).ty)
    /\ out' = Out("bool", lt(Val(a), Val(b)))
    /\ op' = Op("lt", a, b, store[a], store[b], -1, <<>>)
    /\ UNCHANGED <<decl, store, overflow_checks, bare>>

\* a > b
Gt(a, b) ==
    /\ Comparable(a, b)
    /\ ImplPartialOrd(Val(a).ty, Val(b).ty)
    /\ out' = Out("bool", gt(Val(a), Val(b)))
    /\ op' = Op("gt", a, b, store[a], store[b], -1, <<>>)
    /\ UNCHANGED <<decl, store, overflow_checks, bare>>

\* a.partial_cmp(&b)
PartialCmp(a, b) ==
    /\ Comparable(a, b)
    /\ ImplPartialOrd(Val(a).ty, Val(b).ty)
    /\ out' = Out("option_ordering", partial_cmp(Val(a), Val(b)))
    /\ op' = Op("partial_cmp", a, b, store[a], store[b], -1, <<>>)
    /\ UNCHANGED <<decl, store, overflow_checks, bare>>

\* a.cmp(&b)
Cmp(a, b) ==
    /\ Comparable(a, b)
    /\ ImplOrd(Val(a).ty, Val(b).ty)
    /\ out' = Out("ordering", cmp(Val(a), Val(b)))
    /\ op' = Op("cmp", a, b, store[a], store[b], -1, <<>>)
    /\ UNCHANGED <<decl, store, overflow_checks, bare>>

\* [a, b].iter().max()
Max(a, b) ==
    /\ Comparable(a, b)
    /\ ImplOrd(Val(a).ty, Val(b).ty)
    /\ out' = Out("ref", max(Val(a), Val(b)))
    /\ op' = Op("max", a, b, store[a], store[b], -1, <<>>)
    /\ UNCHANGED <<decl, store, overflow_checks, bare>>

\* s.hash(&mut hasher), into a fresh hasher
Hash(s) ==
    /\ Running
    /\ Live(s)
    /\ ImplHash(Val(s).ty)
    /\ out' = Out("hash", hash(Val(s), <<>>))
    /\ op' = Op("hash", s, "-", store[s], None, -1, <<>>)
    /\ UNCHANGED <<decl, store, overflow_checks, bare>>

----------------------------------------------------------------------------
(* Arithmetic: the operands are passed by value. *)

\* Both operands can be named: one variable twice needs a Copy type.
ByValue(a, b) ==
    /\ Running
    /\ Live(a)
    /\ Live(b)
    /\ (a = b => ImplCopy(Val(a).ty))

Returned(r) == IF r = None THEN Panic ELSE Out("amount", r[1])

\* a + b
Add(a, b) ==
    /\ ByValue(a, b)
    /\ ImplAdd(Val(a).ty, Val(b).ty)
    /\ out' = Returned(add(Val(a), Val(b)))
    /\ store' = Moved(Moved(store, a), b)
    /\ op' = Op("add", a, b, store[a], store[b], -1, <<>>)
    /\ UNCHANGED <<decl, overflow_checks>>
    /\ bare' = Unwrapped(store')

\* a - b
Sub(a, b) ==
    /\ ByValue(a, b)
    /\ ImplSub(Val(a).ty, Val(b).ty)
    /\ out' = Returned(sub(Val(a), Val(b)))
    /\ store' = Moved(Moved(store, a), b)
    /\ op' = Op("sub", a, b, store[a], store[b], -1, <<>>)
    /\ UNCHANGED <<decl, overflow_checks>>
    /\ bare' = Unwrapped(store')

\* a * k
Mul(a, k) ==
    /\ Running
    /\ Live(a)
    /\ ImplMul(Val(a).ty)
    /\ k \in ReprValues(Val(a).ty.Repr)
    /\ out' = Returned(mul(Val(a), k))
    /\ store' = Moved(store, a)
    /\ op' = Op("mul", a, "-", store[a], None, k, <<>>)
    /\ UNCHANGED <<decl, overflow_checks>>
    /\ bare' = Unwrapped(store')

\* a / b
Div(a, b) ==
    /\ ByValue(a, b)
    /\ ImplDiv(Val(a).ty, Val(b).ty)
    /\ out' = LET r == div(Val(a), Val(b))
              IN  IF r = None THEN Panic ELSE Out("repr", r[1])
    /\ store' = Moved(Moved(store, a), b)
    /\ op' = Op("div", a, b, store[a], store[b], -1, <<>>)
    /\ UNCHANGED <<decl, overflow_checks>>
    /\ bare' = Unwrapped(store')

\* The variable a after an in-place operation that left r.
InPlace(a, b, r) ==
    IF r = None THEN store ELSE [Moved(store, b) EXCEPT ![a] = r]

\* a += b
AddAssign(a, b) ==
    /\ ByValue(a, b)
    /\ ImplAddAssign(Val(a).ty, Val(b).ty)
    /\ LET r == add_assign(Val(a), Val(b))
       IN  /\ store' = InPlace(a, b, r)
           /\ out' = IF r = None THEN Panic ELSE NoOut
    /\ op' = Op("add_assign", a, b, store[a], store[b], -1, <<>>)
    /\ UNCHANGED <<decl, overflow_checks>>
    /\ bare' = [Unwrapped(store') EXCEPT
                  ![a] = ReprAddAssign(bare[a][1], get(Val(b)))]

\* a -= b
SubAssign(a, b) ==
    /\ ByValue(a, b)
    /\ ImplSubAssign(Val(a).ty, Val(b).ty)
    /\ LET r == sub_assign(Val(a), Val(b))
       IN  /\ store' = InPlace(a, b, r)
           /\ out' = IF r = None THEN Panic ELSE NoOut
    /\ op' = Op("sub_assign", a, b, store[a], store[b], -1, <<>>)
    /\ UNCHANGED <<decl, overflow_checks>>
    /\ bare' = [Unwrapped(store') EXCEPT
                  ![a] = ReprSubAssign(bare[a][1], get(Val(b)))]

\* a *= k
MulAssign(a, k) ==
    /\ Running
    /\ Live(a)
    /\ ImplMulAssign(Val(a).ty)
    /\ k \in ReprValues(Val(a).ty.Repr)
    /\ LET r == mul_assign(Val(a), k)
       IN  /\ store' = IF r = None THEN store ELSE [store EXCEPT ![a] = r]
           /\ out' = IF r = None THEN Panic ELSE NoOut
    /\ op' = Op("mul_assign", a, "-", store[a], None, k, <<>>)
    /\ UNCHANGED <<decl, overflow_checks>>
    /\ bare' = [Unwrapped(store') EXCEPT
                  ![a] = ReprMulAssign(bare[a][1], k)]

----------------------------------------------------------------------------
(* Rendering, serialization, layout. *)

\* format!("{}", s)
Display(s) ==
    /\ Running
    /\ Live(s)
    /\ ImplDisplay(Val(s).ty)
    /\ out' = Out("text", fmt(Val(s)))
    /\ op' = Op("fmt", s, "-", store[s], None, -1, <<>>)
    /\ UNCHANGED <<decl, store, overflow_checks, bare>>

\* serde_json::to_string(&s)
Serialize(s) ==
    /\ Running
    /\ Live(s)
    /\ ImplSerialize(Val(s).ty)
    /\ out' = Out("serialized", serialize(Val(s)))
    /\ op' = Op("serialize", s, "-", store[s], None, -1, <<>>)
    /\ UNCHANGED <<decl, store, overflow_checks, bare>>

\* d = serde_json::from_str(input): Ok binds d, Err leaves it
Deserialize(d, input) ==
    /\ Running
    /\ ImplDeserialize(decl[d])
    /\ LET r == deserialize(decl[d], input)
       IN  /\ store' = IF r = None THEN store ELSE [store EXCEPT ![d] = r]
           /\ out' = IF r = None THEN Out("err", 0) ELSE Out("ok", r[1])
    /\ op' = Op("deserialize", "-", d, None, None, -1, input)
    /\ UNCHANGED <<decl, overflow_checks>>
    /\ bare' = Unwrapped(store')

\* The serde doc test: d = serde_json::from_str(&serde_json::to_string(&s)),
\* then assert_eq!(d, s)
RoundTrip(s, d) ==
    /\ Running
    /\ Live(s)
    /\ ImplSerialize(Val(s).ty)
    /\ ImplDeserialize(decl[d])
    /\ ImplPartialEq(decl[d], Val(s).ty)
    /\ LET r == deserialize(decl[d], serialize(Val(s)))
       IN  /\ store' = IF r = None THEN store ELSE [store EXCEPT ![d] = r]
           /\ out' = IF r = None THEN Out("err", 0)
                     ELSE Out("bool", eq(r[1], Val(s)))
    /\ op' = Op("round_trip", s, d, store[s], None, -1, serialize(Val(s)))
    /\ UNCHANGED <<decl, overflow_checks>>
    /\ bare' = Unwrapped(store')

\* core::mem::size_of_val(&s)
SizeOfVal(s) ==
    /\ Running
    /\ Live(s)
    /\ out' = Out("size", SizeOf(Val(s).ty))
    /\ op' = Op("size_of_val", s, "-", store[s], None, -1, <<>>)
    /\ UNCHANGED <<decl, store, overflow_checks, bare>>

----------------------------------------------------------------------------

Next ==
    \/ \E d \in Slots, v \in 0..ReprMax : New(d, v)
    \/ \E d \in Slots, v \in 0..ReprMax : From(d, v)
    \/ \E d \in Slots : Default(d)
    \/ \E s \in Slots : Get(s)
    \/ \E s, d \in Slots : Clone(s, d)
    \/ \E s, d \in Slots : Assign(s, d)
    \/ \E d \in Slots : Bind(d)
    \/ \E a, b \in Slots : Eq(a, b)
    \/ \E a, b \in Slots : Ne(a, b)
    \/ \E a, b \in Slots : Lt(a, b)
    \/ \E a, b \in Slots : Gt(a, b)
    \/ \E a, b \in Slots : PartialCmp(a, b)
    \/ \E a, b \in Slots : Cmp(a, b)
    \/ \E a, b \in Slots : Max(a, b)
    \/ \E s \in Slots : Hash(s)
    \/ \E a, b \in Slots : Add(a, b)
    \/ \E a, b \in Slots : Sub(a, b)
    \/ \E a \in Slots, k \in 0..ReprMax : Mul(a, k)
    \/ \E a, b \in Slots : Div(a, b)
    \/ \E a, b \in Slots : AddAssign(a, b)
    \/ \E a, b \in Slots : SubAssign(a, b)
    \/ \E a \in Slots, k \in 0..ReprMax : MulAssign(a, k)
    \/ \E s \in Slots : Display(s)
    \/ \E s \in Slots : Serialize(s)
    \/ \E d \in Slots, input \in Inputs : Deserialize(d, input)
    \/ \E s, d \in Slots : RoundTrip(s, d)
    \/ \E s \in Slots : SizeOfVal(s)

Spec == Init /\ [][Next]_vars

----------------------------------------------------------------------------
(* Properties. *)

BinaryOps ==
    {"eq", "ne", "lt", "gt", "partial_cmp", "cmp", "max",
     "add", "sub", "div", "add_assign", "sub_assign"}

\* The operations that hand a wrapper on to the variable op.b.
Transfers == {"clone", "assign", "bind", "round_trip"}

Lhs == op.lhs[1]

Rhs == op.rhs[1]

\* C1: wrappers of different tags cannot be assigned to, compared with or
\* added to each other. Every two-operand operation that ran (add, subtract,
\* divide, +=, -=, equality, ordering, max) had operands of one and the same
\* wrapper type (flag, tag and representation); none of them is enabled on
\* two live variables of different types; a wrapper is handed to a variable
\* only of its own type; and every wrapper an operation returns or leaves in
\* a variable has the type of the operand it came from.
C1_SameTagOnly ==
    /\ op.name \in BinaryOps => Lhs.ty = Rhs.ty
    /\ \A a, b \in Slots :
          (Running /\ Live(a) /\ Live(b) /\ Val(a).ty # Val(b).ty) =>
             /\ ~ENABLED Add(a, b)
             /\ ~ENABLED Sub(a, b)
             /\ ~ENABLED Div(a, b)
             /\ ~ENABLED AddAssign(a, b)
             /\ ~ENABLED SubAssign(a, b)
             /\ ~ENABLED Eq(a, b)
             /\ ~ENABLED Ne(a, b)
             /\ ~ENABLED Lt(a, b)
             /\ ~ENABLED Gt(a, b)
             /\ ~ENABLED PartialCmp(a, b)
             /\ ~ENABLED Cmp(a, b)
             /\ ~ENABLED Max(a, b)
             /\ ~ENABLED Assign(a, b)
             /\ ~ENABLED Clone(a, b)
    /\ \A s \in Slots : Live(s) => Val(s).ty = decl[s]
    /\ op.name \in Transfers => Lhs.ty = decl[op.b]
    /\ (op.name \in {"add", "sub", "mul", "max"} /\ out.kind \in {"amount", "ref"})
          => out.val.ty = Lhs.ty
    /\ (op.name \in {"add_assign", "sub_assign", "mul_assign"} /\ Live(op.a))
          => Val(op.a).ty = Lhs.ty

\* C1 witness: an Apples and an Oranges wrapper of the same flag and
\* representation are both live, and an addition (of one to itself) has run.
C1_Witness ==
    /\ Live("x") /\ Live("y")
    /\ decl["x"].Unit # decl["y"].Unit
    /\ decl["x"].TF = decl["y"].TF
    /\ decl["x"].Repr = decl["y"].Repr
    /\ op.name = "add" /\ out.kind = "amount"


\* C2: unwrap(construct(v)) == v. After Amount::new(v) or Amount::from(v)
\* the variable holds a wrapper whose get() is exactly v, for every v of the
\* representation and every wrapper type; construction is enabled for every
\* such v; and get() returns the stored value and leaves the wrapper as it
\* was (so a second get() returns v again).
C2_GetOfNew ==
    /\ op.name \in {"new", "from"} =>
          /\ Live(op.a)
          /\ get(Val(op.a)) = op.k
          /\ Val(op.a).ty = decl[op.a]
    /\ \A d \in Slots : \A v \in ReprValues(decl[d].Repr) :
          Running => ENABLED New(d, v) /\ ENABLED From(d, v)
    /\ \A ty \in AmountTypes : \A v \in ReprValues(ty.Repr) :
          get(new(ty, v)) = v /\ get(from(ty, v)) = v
    /\ op.name = "get" =>
          /\ out.kind = "repr"
          /\ out.val = Lhs.f0
          /\ store[op.a] = op.lhs
          /\ get(Val(op.a)) = out.val

\* C2 witness: get() has returned zero from a live wrapper of the
\* non-copyable flag without a default, which still holds it.
C2_Witness ==
    /\ op.name = "get"
    /\ out.kind = "repr"
    /\ out.val = 0
    /\ Live(op.a)
    /\ Lhs.ty.TF = TRAIT_FLAGS_NO_COPY_NO_DEFAULT

\* C3: every comparison of two wrappers of one type returns what the same
\* comparison of their representation values returns: == and != are
\* equality of the values, < and > their order, partial_cmp and cmp their
\* ordering, and max over [a, b] the operand with the larger value (the
\* last one when they are equal). The result depends on nothing but the two
\* values, whatever the tag and the capability flag.
C3_CompareAsRepr ==
    LET l == Lhs.f0
        r == Rhs.f0
        ordering == IF l < r THEN "Less" ELSE IF l > r THEN "Greater" ELSE "Equal"
    IN  /\ op.name = "eq" => out.val = (l = r)
        /\ op.name = "ne" => out.val = (l # r)
        /\ op.name = "lt" => out.val = (l < r)
        /\ op.name = "gt" => out.val = (l > r)
        /\ op.name = "partial_cmp" => out.val = Some(ordering)
        /\ op.name = "cmp" => out.val = ordering
        /\ op.name = "max" =>
              /\ out.val = (IF l > r THEN Lhs ELSE Rhs)
              /\ out.val.f0 >= l /\ out.val.f0 >= r
        /\ op.name \in {"eq", "ne", "lt", "gt", "partial_cmp", "cmp", "max"} =>
              /\ out.kind # "panic"
              /\ store[op.a] = op.lhs /\ store[op.b] = op.rhs

\* C3 witness: a < b has answered TRUE for two Oranges wrappers of a
\* non-copyable flag.
C3_Witness ==
    /\ op.name = "lt"
    /\ out.kind = "bool" /\ out.val = TRUE
    /\ op.a # op.b
    /\ Lhs.ty.Unit = "Oranges"
    /\ Lhs.ty.TF = TRAIT_FLAGS_NO_COPY_IS_DEFAULT


\* The outcome of an operation that returns a wrapper.
Returns(ty, v) == out.kind = "amount" /\ out.val = new(ty, v)

Aborts == out.kind = "panic"

\* C4 as stated: for all wrappers a, b of one type a + b and a - b return a
\* wrapper, and (a + b) - b == a.
C4_Original ==
    /\ op.name \in {"add", "sub"} => out.kind = "amount"
    /\ op.name = "add" => sub(out.val, Rhs) = Some(Lhs)

\* C4, amended: a + b is the wrapper of the operands' type that holds
\* a.get() + b.get(), and a - b the one that holds a.get() - b.get(), with
\* the representation's own overflow behaviour (a sum above the largest
\* value, or a difference below zero, aborts in an overflow-checked build
\* and wraps otherwise); whenever a + b does not abort, (a + b) - b == a;
\* and a - a is the wrapper of zero.
C4_AddSub ==
    LET l == Lhs.f0
        r == Rhs.f0
    IN  /\ op.name = "add" =>
              /\ IF l + r <= ReprMax THEN Returns(Lhs.ty, l + r)
                 ELSE IF overflow_checks THEN Aborts
                 ELSE Returns(Lhs.ty, l + r - Modulus)
              /\ ~Aborts => sub(out.val, Rhs) = Some(Lhs)
        /\ op.name = "sub" =>
              /\ IF l >= r THEN Returns(Lhs.ty, l - r)
                 ELSE IF overflow_checks THEN Aborts
                 ELSE Returns(Lhs.ty, l - r + Modulus)
              /\ Lhs = Rhs => Returns(Lhs.ty, 0)

\* C4 witness: a + b of two different variables holding nonzero values has
\* returned the wrapper of the largest value.
C4_Witness ==
    /\ op.name = "add"
    /\ op.a # op.b
    /\ Lhs.f0 > 0 /\ Rhs.f0 > 0
    /\ out.kind = "amount" /\ out.val.f0 = ReprMax

\* C5 as stated: a * k returns a wrapper and (a * k) / a == k for every
\* nonzero a and every scalar k, and a / a == 1 for every nonzero a.
C5_Original ==
    /\ (op.name = "mul" /\ Lhs.f0 # 0) =>
          out.kind = "amount" /\ div(out.val, Lhs) = Some(op.k)
    /\ (op.name = "div" /\ Lhs = Rhs /\ Lhs.f0 # 0) => out = Out("repr", 1)

\* C5, amended: a * k is the wrapper of a's type that holds a.get() * k
\* (a product above the largest value aborts in an overflow-checked build
\* and wraps otherwise); a / b is the bare quotient a.get() / b.get(), not a
\* wrapper, and aborts when b is zero; a / a == 1 for every nonzero a; and
\* (a * k) / a == k for every nonzero a whose product a.get() * k does not
\* overflow.
C5_ScaleDivide ==
    LET l == Lhs.f0
    IN  /\ op.name = "mul" =>
              /\ IF l * op.k <= ReprMax THEN Returns(Lhs.ty, l * op.k)
                 ELSE IF overflow_checks THEN Aborts
                 ELSE Returns(Lhs.ty, (l * op.k) % Modulus)
              /\ (l # 0 /\ l * op.k <= ReprMax) =>
                    div(out.val, Lhs) = Some(op.k)
        /\ op.name = "div" =>
              /\ IF Rhs.f0 # 0
                 THEN out.kind = "repr" /\ out.val = l \div Rhs.f0
                 ELSE Aborts
              /\ (Lhs = Rhs /\ l # 0) => out = Out("repr", 1)

\* C5 witness: a / b of two different variables has returned a bare
\* quotient above one.
C5_Witness ==
    /\ op.name = "div"
    /\ op.a # op.b
    /\ out.kind = "repr" /\ out.val > 1

IsCopyFlag(TF) ==
    TF \in {TRAIT_FLAGS_IS_COPY_IS_DEFAULT, TRAIT_FLAGS_IS_COPY_NO_DEFAULT}

IsDefaultFlag(TF) ==
    TF \in {TRAIT_FLAGS_IS_COPY_IS_DEFAULT, TRAIT_FLAGS_NO_COPY_IS_DEFAULT}

Copyable(ty) == IsCopyFlag(ty.TF) /\ ReprCopy(ty.Repr)

\* The last operation left two variables holding one and the same value.
Duplicated ==
    /\ op.name \in {"clone", "assign"}
    /\ op.a # op.b
    /\ store[op.a] = op.lhs
    /\ store[op.b] = op.lhs

\* C7 as stated: under NO_COPY_IS_DEFAULT and NO_COPY_NO_DEFAULT no
\* operation leaves a duplicate of an existing wrapper value (a second
\* usable value while the original stays usable).
C7_Original == Duplicated => IsCopyFlag(Lhs.ty.TF)

\* C7, amended: implicit duplication (passing a wrapper by value and still
\* having it) is available only under an is-copyable flag over a copyable
\* representation. After d = s, a + b, a - b, a * k, a / b, a += b, a -= b
\* every operand passed by value is still in its variable exactly when its
\* type is copyable, and is moved out otherwise; one variable can be both
\* operands only when copyable. The explicit clone() is available under
\* every flag and does leave a duplicate.
C7_CopyOnlyWhenDeclared ==
    /\ op.name \in {"assign", "add", "sub", "mul", "div"} =>
          (store[op.a] = op.lhs <=> Copyable(Lhs.ty))
    /\ op.name \in {"assign", "add", "sub", "mul", "div"} =>
          (store[op.a] = None <=> ~Copyable(Lhs.ty))
    /\ op.name \in {"add", "sub", "div"} =>
          (store[op.b] = op.rhs <=> Copyable(Rhs.ty))
    /\ (op.name \in {"add_assign", "sub_assign"} /\ ~Aborts /\ op.a # op.b) =>
          (store[op.b] = op.rhs <=> Copyable(Rhs.ty))
    /\ (op.name \in {"add", "sub", "div", "add_assign", "sub_assign"}
          /\ op.a = op.b) => Copyable(Lhs.ty)
    /\ op.name = "assign" => store[op.b] = op.lhs
    /\ op.name = "assign" => (Duplicated <=> Copyable(Lhs.ty))
    /\ (op.name = "clone" /\ op.a # op.b) => Duplicated
    /\ \A s, d \in Slots :
          (Running /\ Live(s) /\ decl[d] = Val(s).ty) => ENABLED Clone(s, d)

\* C7 witness: d = s has moved a wrapper of a NO_COPY flag over a copyable
\* representation out of s and into d.
C7_Witness ==
    /\ op.name = "assign"
    /\ ~IsCopyFlag(Lhs.ty.TF)
    /\ ReprCopy(Lhs.ty.Repr)
    /\ ~Live(op.a)
    /\ store[op.b] = op.lhs

\* C8: Default::default() is available exactly for the flags that declare
\* has-default (IS_COPY_IS_DEFAULT and NO_COPY_IS_DEFAULT, whatever the
\* is-copyable axis) over a representation that has a default, and the
\* wrapper it returns holds the representation's default, zero.
C8_DefaultWhenDeclared ==
    /\ \A d \in Slots :
          Running =>
             (ENABLED Default(d) <=>
                 IsDefaultFlag(decl[d].TF) /\ ReprDefault(decl[d].Repr))
    /\ op.name = "default" =>
          /\ Live(op.a)
          /\ Val(op.a).ty = decl[op.a]
          /\ Val(op.a).f0 = 0
          /\ Val(op.a).f0 = ReprDefaultValue(decl[op.a].Repr)

\* C8 witness: the default wrapper of the non-copyable flag with a default
\* has been built.
C8_Witness ==
    /\ op.name = "default"
    /\ Live(op.a)
    /\ decl[op.a].TF = TRAIT_FLAGS_NO_COPY_IS_DEFAULT

\* C9: serialize(w) is the representation's own serialized form of w.get()
\* (the decimal digits, nothing around them); deserialize(serialize(w)) is
\* w; and deserialize succeeds exactly on the inputs on which the
\* representation's deserializer succeeds (here: one digit of a value of
\* the representation), and then yields the wrapper of that value.
C9_SerdeAsRepr ==
    /\ op.name = "serialize" =>
          /\ out.kind = "serialized"
          /\ out.val = ReprSerialize(Lhs.f0)
          /\ out.val = <<DigitChar(Lhs.f0)>>
    /\ op.name = "round_trip" =>
          /\ out = Out("bool", TRUE)
          /\ store[op.b] = op.lhs
          /\ op.input = ReprSerialize(Lhs.f0)
    /\ op.name = "deserialize" =>
          LET R == decl[op.b].Repr
              r == ReprDeserialize(R, op.input)
          IN  /\ out.kind \in {"ok", "err"}
              /\ out.kind = "ok" <=> r # None
              /\ out.kind = "ok" <=>
                    \E v \in ReprValues(R) : op.input = <<DigitChar(v)>>
              /\ out.kind = "ok" =>
                    /\ out.val = new(decl[op.b], r[1])
                    /\ store[op.b] = Some(out.val)
                    /\ serialize(out.val) = op.input

\* C9 witness: the round trip of a wrapper holding the largest value into a
\* second variable has returned an equal wrapper.
C9_Witness ==
    /\ op.name = "round_trip"
    /\ op.a # op.b
    /\ Lhs.f0 = ReprMax
    /\ out.kind = "bool" /\ out.val = TRUE

\* C10: size_of of a wrapper is size_of of its representation, for every
\* tag, representation and flag; the bytes of a wrapper are the bytes of
\* its representation value, the phantom field holding nothing; so a
\* wrapper is the one its type and its representation value determine.
C10_SizeOfRepr ==
    /\ \A ty \in AmountTypes : SizeOf(ty) = ReprSize(ty.Repr)
    /\ op.name = "size_of_val" =>
          out.kind = "size" /\ out.val = ReprSize(Lhs.ty.Repr)
    /\ \A s \in Slots :
          Live(s) =>
             /\ Bytes(Val(s)) = ReprBytes(Val(s).f0)
             /\ Val(s).f1 = <<>>
             /\ Val(s) = new(decl[s], Val(s).f0)
    /\ out.kind \in {"amount", "ref", "ok"} =>
          out.val = new(out.val.ty, out.val.f0)

\* C10 witness: size_of_val of a live Oranges wrapper over Box<u64> has
\* returned the size of one word.
C10_Witness ==
    /\ op.name = "size_of_val"
    /\ out.kind = "size" /\ out.val = ReprSize("BoxU64")
    /\ Lhs.ty.Unit = "Oranges"
    /\ Lhs.ty.Repr = "BoxU64"

\* The operations that update their left operand in place.
InPlaceOps == {"add_assign", "sub_assign", "mul_assign"}

\* C11: the wrapper refines its bare representation under the in-place
\* operations. Whatever sequence of w += b, w -= b, w *= k has run on a
\* variable since its wrapper was made, the bare value kept beside it, which
\* took the same +=, -=, *= with the unwrapped operands, is what the wrapper
\* holds, and the last of them aborted exactly when the bare one did. An
\* in-place operation that ran through changed nothing of its left operand
\* but the stored representation: the tag, the capability flag and the
\* declared type are as before, and its right operand is still what it was
\* where the type lets the variable be used again. a + b, a - b and a * k
\* return exactly the wrapper that a += b, a -= b and a *= k leave in a, and
\* abort where they abort.
C11_InPlaceAsRepr ==
    /\ \A s \in Slots :
          Live(s) =>
             IF Aborts /\ op.name \in InPlaceOps /\ s = op.a
             THEN bare[s] = None
             ELSE bare[s] = Some(Val(s).f0)
    /\ (op.name \in InPlaceOps /\ ~Aborts) =>
          /\ Live(op.a)
          /\ Val(op.a) = [Lhs EXCEPT !.f0 = get(Val(op.a))]
          /\ Val(op.a).ty = Lhs.ty
          /\ decl[op.a] = Lhs.ty
          /\ (op.name # "mul_assign" /\ op.b # op.a) =>
                store[op.b] = IF ImplCopy(Rhs.ty) THEN op.rhs ELSE None
    /\ op.name = "add_assign" =>
          IF Aborts THEN add(Lhs, Rhs) = None
          ELSE store[op.a] = add(Lhs, Rhs)
    /\ op.name = "sub_assign" =>
          IF Aborts THEN sub(Lhs, Rhs) = None
          ELSE store[op.a] = sub(Lhs, Rhs)
    /\ op.name = "mul_assign" =>
          IF Aborts THEN mul(Lhs, op.k) = None
          ELSE store[op.a] = mul(Lhs, op.k)
    /\ op.name = "add" =>
          IF Aborts THEN add_assign(Lhs, Rhs) = None
          ELSE out.kind = "amount" /\ Some(out.val) = add_assign(Lhs, Rhs)
    /\ op.name = "sub" =>
          IF Aborts THEN sub_assign(Lhs, Rhs) = None
          ELSE out.kind = "amount" /\ Some(out.val) = sub_assign(Lhs, Rhs)
    /\ op.name = "mul" =>
          IF Aborts THEN mul_assign(Lhs, op.k) = None
          ELSE out.kind = "amount" /\ Some(out.val) = mul_assign(Lhs, op.k)

\* C11 witness: after x was made, y -= x has taken 1 from the 3 that y held
\* and left 2, as the bare 3 -= 1 beside it did; x is of a type that is
\* Copy and still holds its 1.
C11_Witness ==
    /\ op.name = "sub_assign" /\ ~Aborts
    /\ op.a = "y" /\ op.b = "x"
    /\ Lhs.f0 = 3 /\ Rhs.f0 = 1
    /\ Val("y").f0 = 2 /\ bare["y"] = Some(2)
    /\ store["x"] = op.rhs /\ bare["x"] = Some(1)

====
